---- MODULE Spec2Model ----
(***************************************************************************)
(* Model of the two nodes of nodes.py:                                     *)
(*   WanImageToVideoSVIProFLF.execute  (segment latent assembler)          *)
(*   WanCutLastSlot.execute            (trailing slot trimmer)             *)
(*                                                                         *)
(* A tensor [B, C, T, H, W] is a storage on a heap: its dimensions plus,   *)
(* for every batch element, the sequence of its T temporal slots.  One     *)
(* slot (a whole [C, H, W] slab) is abstracted to a single integer code.   *)
(* A tensor value in the program is a view: a storage name and a window    *)
(* on its time axis, so that slicing aliases and clone()/cat()/repeat()    *)
(* allocate, as in torch.                                                  *)
(***************************************************************************)
EXTENDS Integers, Sequences, FiniteSets, TLC

VARIABLES pc, op, args, heap, dicts, locals, ret

vars == <<pc, op, args, heap, dicts, locals, ret>>

----------------------------------------------------------------------------
(* Bounds of the explored inputs *)

MaxLength == 9
MaxB == 2
MaxT == 2
MaxMotion == 2
MaxCutT == 3
MaxCut == 4

----------------------------------------------------------------------------
(* Program constants *)

\* channel count of the empty latent handed to the sampler
EmptyChannels == 16

\* temporal stride of Wan latents
Stride == 4

\* codes of the slab values: raw zero, and the affine map of
\* Wan21().process_out (x * latents_std / scale_factor + latents_mean)
RawZero == 0
LatentsStd == 3
LatentsMean == 7

\* mask values
Locked == 0
Free == 1

----------------------------------------------------------------------------
(* Small arithmetic *)

Min(a, b) == IF a < b THEN a ELSE b

Max(a, b) == IF a > b THEN a ELSE b

----------------------------------------------------------------------------
(* Tensors *)

\* an absent optional input (None)
None == [present |-> FALSE, B |-> 0, C |-> 0, H |-> 0, W |-> 0, T |-> 0]

\* the caller's tensors, told apart by the hundreds of their slab codes
AnchorTag == 100 * 1

PrevTag == 100 * 2

EndTag == 100 * 3

CutTag == 100 * 4

\* the slab the caller stored in slot t of batch element b of input `tag`:
\* every slot of every input holds a value of its own
InputCode(tag, b, t) == tag + b * 10 + t

\* the storage of an input tensor described by d
InputStorage(tag, d) ==
  [B |-> d.B, C |-> d.C, H |-> d.H, W |-> d.W,
   data |-> [b \in 1..d.B |-> [t \in 1..d.T |-> InputCode(tag, b, t)]]]

\* torch.zeros(B, C, T, H, W)
Zeros(B, C, T, H, W) ==
  [B |-> B, C |-> C, H |-> H, W |-> W,
   data |-> [b \in 1..B |-> [t \in 1..T |-> RawZero]]]

\* torch.ones((B, C, T, H, W))
Ones(B, C, T, H, W) ==
  [B |-> B, C |-> C, H |-> H, W |-> W,
   data |-> [b \in 1..B |-> [t \in 1..T |-> Free]]]

\* the whole tensor held by storage `name`
Whole(h, name) == [store |-> name, lo |-> 0, hi |-> Len(h[name].data[1])]

\* x.shape[2]
TLen(v) == v.hi - v.lo

\* the slots a view shows, per batch element
Contents(h, v) ==
  [b \in 1..h[v.store].B |-> SubSeq(h[v.store].data[b], v.lo + 1, v.hi)]

\* Python's normalisation of a slice bound i on an axis of size n
NormIdx(i, n) == IF i < 0 THEN Max(i + n, 0) ELSE Min(i, n)

\* x[:, :, start:]  (a view, no copy)
SliceFrom(v, start) ==
  [store |-> v.store, lo |-> v.lo + NormIdx(start, TLen(v)), hi |-> v.hi]

\* x[:, :, :stop]  (a view, no copy)
SliceTo(v, stop) ==
  [store |-> v.store, lo |-> v.lo, hi |-> v.lo + NormIdx(stop, TLen(v))]

\* B, C, H, W of two tensors agree
SameBCHW(h, v, w) ==
  /\ h[v.store].B = h[w.store].B
  /\ h[v.store].C = h[w.store].C
  /\ h[v.store].H = h[w.store].H
  /\ h[v.store].W = h[w.store].W

\* x.clone(): a new storage `name` holding what the view shows
Clone(h, v, name) ==
  (name :> [B |-> h[v.store].B, C |-> h[v.store].C,
            H |-> h[v.store].H, W |-> h[v.store].W,
            data |-> Contents(h, v)]) @@ h

\* torch.cat([v, w], dim=2) into a new storage `name` (shapes agree)
Cat(h, v, w, name) ==
  (name :> [B |-> h[v.store].B, C |-> h[v.store].C,
            H |-> h[v.store].H, W |-> h[v.store].W,
            data |-> [b \in 1..h[v.store].B |->
                        Contents(h, v)[b] \o Contents(h, w)[b]]]) @@ h

\* x.repeat(n, 1, 1, 1, 1) of a batch-1 tensor into a new storage `name`
Repeat(h, v, n, name) ==
  (name :> [B |-> n, C |-> h[v.store].C,
            H |-> h[v.store].H, W |-> h[v.store].W,
            data |-> [b \in 1..n |-> Contents(h, v)[1]]]) @@ h

\* comfy.latent_formats.Wan21().process_out applied to one slab code
process_out_slab(x) == x * LatentsStd + LatentsMean

\* Wan21().process_out(t): a new tensor `name`
process_out(h, v, name) ==
  (name :> [B |-> h[v.store].B, C |-> h[v.store].C,
            H |-> h[v.store].H, W |-> h[v.store].W,
            data |-> [b \in 1..h[v.store].B |->
                        [t \in 1..TLen(v) |->
                           process_out_slab(Contents(h, v)[b][t])]]]) @@ h

\* a right-hand side of batch size n broadcasts over a target of batch m
Broadcastable(n, m) == n = m \/ n = 1

\* dst[...] = src : in-place write through the view dst into its storage;
\* the source rows, already read, are broadcast over the batch
SetItem(h, dst, rows) ==
  [h EXCEPT ![dst.store].data =
     [b \in 1..h[dst.store].B |->
        [t \in 1..Len(h[dst.store].data[b]) |->
           IF t > dst.lo /\ t <= dst.hi
             THEN (IF DOMAIN rows = {1} THEN rows[1] ELSE rows[b])[t - dst.lo]
             ELSE h[dst.store].data[b][t]]]]

\* dst[...] = c for a scalar c
Fill(h, dst, c) ==
  [h EXCEPT ![dst.store].data =
     [b \in 1..h[dst.store].B |->
        [t \in 1..Len(h[dst.store].data[b]) |->
           IF t > dst.lo /\ t <= dst.hi THEN c
           ELSE h[dst.store].data[b][t]]]]

----------------------------------------------------------------------------
(* Inputs *)

\* descriptors of the input tensors; every block of one call shares the
\* anchor's C, H, W except a possibly mismatching end block
BaseDim == 1

AnchorInputs ==
  [present : {TRUE}, B : 1..MaxB, C : {BaseDim}, H : {BaseDim}, W : {BaseDim},
   T : 1..MaxT]

PrevInputs ==
  {None} \cup
  [present : {TRUE}, B : 1..MaxB, C : {BaseDim}, H : {BaseDim}, W : {BaseDim},
   T : 0..MaxT]

\* an end block agrees with the anchor on C, H, W or differs in one of them
EndInputs ==
  {None} \cup
  {e \in [present : {TRUE}, B : 1..MaxB, C : {BaseDim, BaseDim + 1},
          H : {BaseDim, BaseDim + 1}, W : {BaseDim, BaseDim + 1},
          T : 0..MaxT] :
     e.C + e.H + e.W <= 3 * BaseDim + 1}

FLFArgs ==
  [length : 1..MaxLength, anchor_samples : AnchorInputs,
   prev_samples : PrevInputs, end_samples : EndInputs,
   motion_latent_count : 0..MaxMotion,
   positive : {[prompt |-> "positive"]}, negative : {[prompt |-> "negative"]}]

\* a call on one batch element with given lengths and no end_samples
Scenario(length, T_anchor, T_prev, motion_latent_count) ==
  [length |-> length,
   anchor_samples |-> [present |-> TRUE, B |-> 1, C |-> BaseDim,
                       H |-> BaseDim, W |-> BaseDim, T |-> T_anchor],
   prev_samples |-> [present |-> TRUE, B |-> 1, C |-> BaseDim,
                     H |-> BaseDim, W |-> BaseDim, T |-> T_prev],
   end_samples |-> None,
   motion_latent_count |-> motion_latent_count,
   positive |-> [prompt |-> "positive"],
   negative |-> [prompt |-> "negative"]]

\* the calls the documentation works out: length 21 with one anchor slot and
\* two of three previous slots, and a motion count above the slots available
Scenarios == {Scenario(21, 1, 3, 2), Scenario(1, 1, 2, 5)}

\* keys a latent container may carry besides "samples"
ExtraKeys == {"noise_mask", "batch_index"}

CutArgs ==
  [T : 0..MaxCutT, slots_to_cut : 1..MaxCut, extra : SUBSET ExtraKeys]


\* a latent container {"samples": tensor} around storage `name`
Container(h, name) == [samples |-> Whole(h, name)]

\* the caller's heap and containers before WanImageToVideoSVIProFLF.execute
FLFHeap(a) ==
  ("anchor_in" :> InputStorage(AnchorTag, a.anchor_samples))
  @@ (IF a.prev_samples.present
        THEN ("prev_in" :> InputStorage(PrevTag, a.prev_samples))
        ELSE <<>>)
  @@ (IF a.end_samples.present
        THEN ("end_in" :> InputStorage(EndTag, a.end_samples))
        ELSE <<>>)

FLFDicts(a) ==
  ("anchor_samples" :> Container(FLFHeap(a), "anchor_in"))
  @@ (IF a.prev_samples.present
        THEN ("prev_samples" :> Container(FLFHeap(a), "prev_in"))
        ELSE <<>>)
  @@ (IF a.end_samples.present
        THEN ("end_samples" :> Container(FLFHeap(a), "end_in"))
        ELSE <<>>)

\* the caller's heap and container before WanCutLastSlot.execute
CutHeap(a) ==
  "x_in" :> InputStorage(CutTag,
               [B |-> 1, C |-> BaseDim, H |-> BaseDim, W |-> BaseDim, T |-> a.T])

\* a value stored under an extra key of a latent container
ExtraValue(k) == [store |-> k, lo |-> 0, hi |-> 1]

CutDicts(a) ==
  "latents" :>
    [k \in {"samples"} \cup a.extra |->
       IF k = "samples" THEN Whole(CutHeap(a), "x_in") ELSE ExtraValue(k)]

----------------------------------------------------------------------------
(* WanImageToVideoSVIProFLF.execute *)

\* slip: the frame count divided without the - 1
TotalLatents_NoMinusOne(length) == length \div Stride + 1

\* total_latents = (length - 1) // 4 + 1
TotalLatents(length) == (length - 1) \div Stride + 1

\* slip: the anchor used without clone()
AnchorLatent_NoClone(h, d) ==
  [heap |-> h, ref |-> d["anchor_samples"].samples]

\* anchor_latent = anchor_samples["samples"].clone()
AnchorLatent(h, d) ==
  [heap |-> Clone(h, d["anchor_samples"].samples, "anchor_latent"),
   ref |-> [store |-> "anchor_latent", lo |-> 0,
            hi |-> TLen(d["anchor_samples"].samples)]]

\* the locals of execute right after the anchor is cloned
EnterFLF(a, h, d) ==
  LET h1 == AnchorLatent(h, d).heap
      anchor_latent == AnchorLatent(h, d).ref
  IN  [heap |-> h1,
       raised |-> "none",
       B |-> h1[anchor_latent.store].B,
       C |-> h1[anchor_latent.store].C,
       T_anchor |-> TLen(anchor_latent),
       H |-> h1[anchor_latent.store].H,
       W |-> h1[anchor_latent.store].W,
       total_latents |-> TotalLatents(a.length),
       anchor_latent |-> anchor_latent,
       motion_count |-> 0,
       base_latent |-> anchor_latent,
       base_value |-> <<>>,
       T_base |-> 0,
       padding_size |-> 0,
       image_cond_latent |-> anchor_latent,
       before_end |-> <<>>,
       end_t_fix |-> 0,
       mask |-> anchor_latent]

\* slip: the first slots of prev_samples instead of the last
MotionTail_Head(prev_latent, motion_count) ==
  SliceTo(prev_latent, motion_count)

\* motion_latent = prev_latent[:, :, -motion_count:]
MotionTail(prev_latent, motion_count) ==
  SliceFrom(prev_latent, 0 - motion_count)

\* 1) base block: anchor plus the motion tail of prev_samples
BaseBlock(a, d, f) ==
  IF ~a.prev_samples.present \/ a.motion_latent_count = 0
    THEN [f EXCEPT !.base_latent = f.anchor_latent]
    ELSE
      LET h1 == Clone(f.heap, d["prev_samples"].samples, "prev_latent")
          prev_latent == Whole(h1, "prev_latent")
          T_prev == TLen(prev_latent)
          motion_count == Min(a.motion_latent_count, T_prev)
          motion_latent == MotionTail(prev_latent, motion_count)
      IN  IF motion_count > 0
            THEN IF SameBCHW(h1, f.anchor_latent, motion_latent)
                   THEN LET h2 == Cat(h1, f.anchor_latent, motion_latent,
                                      "base_latent")
                        IN  [f EXCEPT !.heap = h2,
                                      !.motion_count = motion_count,
                                      !.base_latent = Whole(h2, "base_latent")]
                   ELSE [f EXCEPT !.heap = h1,
                                  !.motion_count = motion_count,
                                  !.raised = "cat"]
            ELSE [f EXCEPT !.heap = h1,
                           !.motion_count = motion_count,
                           !.base_latent = f.anchor_latent]

\* slip: raw zeros appended, process_out left out
Padding_RawZeros(h, B, C, padding_size, H, W) ==
  ("padding" :> Zeros(B, C, padding_size, H, W)) @@ h

\* padding = Wan21().process_out(torch.zeros(B, C, padding_size, H, W))
Padding(h, B, C, padding_size, H, W) ==
  process_out(("zeros" :> Zeros(B, C, padding_size, H, W)) @@ h,
              [store |-> "zeros", lo |-> 0, hi |-> padding_size], "padding")

\* 2) pad with Wan-format zeros, or truncate, to total_latents slots;
\* base_value keeps what base_latent holds at this point
PadOrTruncate(f) ==
  IF f.raised # "none" THEN f ELSE
  LET T_base == TLen(f.base_latent)
      padding_size == Max(f.total_latents - T_base, 0)
      g == [f EXCEPT !.T_base = T_base, !.padding_size = padding_size,
                     !.base_value = Contents(f.heap, f.base_latent)]
  IN  IF padding_size > 0
        THEN LET h2 == Padding(f.heap, f.B, f.C, padding_size, f.H, f.W)
                 h3 == Cat(h2, f.base_latent, Whole(h2, "padding"),
                           "image_cond_latent")
             IN  [g EXCEPT !.heap = h3,
                           !.image_cond_latent = Whole(h3, "image_cond_latent")]
        ELSE [g EXCEPT !.image_cond_latent =
                          SliceTo(f.base_latent, f.total_latents)]

\* the safety clamp after padding
SafetyClamp(f) ==
  IF f.raised # "none" THEN f ELSE
  IF TLen(f.image_cond_latent) # f.total_latents
    THEN [f EXCEPT !.image_cond_latent =
                      SliceTo(f.image_cond_latent, f.total_latents)]
    ELSE f

\* slip: the width left out of the shape check
EndShapeMatches_NoWidth(h, end_latent, C, H, W) ==
  /\ h[end_latent.store].C = C
  /\ h[end_latent.store].H = H

\* channels and spatial dimensions of end_latent match the anchor's
EndShapeMatches(h, end_latent, C, H, W) ==
  /\ h[end_latent.store].C = C
  /\ h[end_latent.store].H = H
  /\ h[end_latent.store].W = W

\* slip: the first slots of the end block instead of the last
EndTail_Head(end_latent, end_t_fix) == SliceTo(end_latent, end_t_fix)

\* end_latent[:, :, -end_t_fix:]
EndTail(end_latent, end_t_fix) == SliceFrom(end_latent, 0 - end_t_fix)

\* 3) hard-lock the last slots to end_samples; before_end keeps what
\* image_cond_latent holds when this step starts
EndLock(a, d, f) ==
  IF f.raised # "none" THEN f ELSE
  LET g == [f EXCEPT !.before_end = Contents(f.heap, f.image_cond_latent)]
  IN
  IF ~a.end_samples.present THEN g ELSE
  LET h1 == Clone(g.heap, d["end_samples"].samples, "end_latent")
      h2 == IF h1["end_latent"].B = 1 /\ g.B > 1
              THEN Repeat(h1, Whole(h1, "end_latent"), g.B, "end_repeat")
              ELSE h1
      end_latent == IF h1["end_latent"].B = 1 /\ g.B > 1
                      THEN Whole(h2, "end_repeat")
                      ELSE Whole(h2, "end_latent")
  IN  IF EndShapeMatches(h2, end_latent, g.C, g.H, g.W)
        THEN
          LET T_end == TLen(end_latent)
              end_t_fix == Min(T_end, g.total_latents)
              dst == SliceFrom(g.image_cond_latent, 0 - end_t_fix)
              src == EndTail(end_latent, end_t_fix)
          IN  IF end_t_fix > 0
                THEN IF Broadcastable(h2[end_latent.store].B, g.B)
                       THEN [g EXCEPT !.heap = SetItem(h2, dst, Contents(h2, src)),
                                      !.end_t_fix = end_t_fix]
                       ELSE [g EXCEPT !.heap = h2,
                                      !.end_t_fix = end_t_fix,
                                      !.raised = "setitem"]
                ELSE [g EXCEPT !.heap = h2, !.end_t_fix = end_t_fix]
        ELSE [g EXCEPT !.heap = h2, !.end_t_fix = 0]

\* slip: the end_t_fix > 0 test left out, so that mask[:, :, -0:] is written
LockMaskTail_NoGuard(h, mask, end_t_fix) ==
  Fill(h, SliceFrom(mask, 0 - end_t_fix), Locked)

\* if end_t_fix > 0: mask[:, :, -end_t_fix:] = 0.0
LockMaskTail(h, mask, end_t_fix) ==
  IF end_t_fix > 0
    THEN Fill(h, SliceFrom(mask, 0 - end_t_fix), Locked)
    ELSE h

\* 4) the empty latent and 5) the mask
BuildMask(f) ==
  IF f.raised # "none" THEN f ELSE
  LET h1 == ("empty_latent" :>
               Zeros(f.B, EmptyChannels, f.total_latents, f.H, f.W))
            @@ ("mask" :> Ones(1, 1, f.total_latents, f.H, f.W))
            @@ f.heap
      mask == Whole(h1, "mask")
      h2 == Fill(h1, SliceTo(mask, 1), Locked)
      h3 == LockMaskTail(h2, mask, f.end_t_fix)
  IN  [f EXCEPT !.heap = h3, !.mask = mask]

\* node_helpers.conditioning_set_values: a copy of the record with the
\* given keys set
conditioning_set_values(c, values) == values @@ c

\* the body of execute, from the clone of the anchor to the mask
RunFLF(a, h, d) ==
  BuildMask(EndLock(a, d, SafetyClamp(PadOrTruncate(
    BaseBlock(a, d, EnterFLF(a, h, d))))))

\* 6) what execute returns
FLFOutput(f, positive, negative) ==
  LET values == [concat_latent_image |-> f.image_cond_latent,
                 concat_mask |-> f.mask]
  IN  [positive |-> conditioning_set_values(positive, values),
       negative |-> conditioning_set_values(negative, values),
       latent |-> [samples |-> Whole(f.heap, "empty_latent")]]

----------------------------------------------------------------------------
(* WanCutLastSlot.execute *)

\* slip: the count of the docstring, n = min(slots_to_cut, T - 1)
CutCount_NoMax(slots_to_cut, T) == Min(slots_to_cut, T - 1)

\* n = max(1, min(slots_to_cut, T - 1))
CutCount(slots_to_cut, T) == Max(1, Min(slots_to_cut, T - 1))

\* latents.copy(): a new container `name` with the same keys and values;
\* ref is what the local variable is bound to
DictCopy(ds, src, name) == [dicts |-> (name :> ds[src]) @@ ds, ref |-> name]

\* container[key] = value
DictSet(ds, ref, key, value) == [ds EXCEPT ![ref][key] = value]

\* the body of execute
RunCut(a, h, d) ==
  LET x == d["latents"]["samples"]
      T == TLen(x)
      n == CutCount(a.slots_to_cut, T)
      h1 == Clone(h, SliceTo(x, T - n), "x_trim")
      x_trim == Whole(h1, "x_trim")
      out == DictCopy(d, "latents", "out")
  IN  [heap |-> h1,
       dicts |-> DictSet(out.dicts, out.ref, "samples", x_trim),
       T |-> T,
       n |-> n,
       out |-> out.ref]

----------------------------------------------------------------------------
(* The two nodes as one-shot calls on inputs chosen by the caller *)

Init ==
  /\ pc = "ready"
  /\ op \in {"flf", "cut"}
  /\ args \in (IF op = "flf" THEN FLFArgs \cup Scenarios ELSE CutArgs)
  /\ heap = (IF op = "flf" THEN FLFHeap(args) ELSE CutHeap(args))
  /\ dicts = (IF op = "flf" THEN FLFDicts(args) ELSE CutDicts(args))
  /\ locals = <<>>
  /\ ret = <<>>

ExecuteFLF ==
  /\ pc = "ready"
  /\ op = "flf"
  /\ \E f \in {RunFLF(args, heap, dicts)} :
         /\ heap' = f.heap
         /\ locals' = [k \in DOMAIN f \ {"heap"} |-> f[k]]
         /\ ret' = IF f.raised # "none"
                     THEN [raised |-> f.raised]
                     ELSE FLFOutput(f, args.positive, args.negative)
  /\ pc' = "done"
  /\ UNCHANGED <<op, args, dicts>>

ExecuteCut ==
  /\ pc = "ready"
  /\ op = "cut"
  /\ \E r \in {RunCut(args, heap, dicts)} :
         /\ heap' = r.heap
         /\ dicts' = r.dicts
         /\ locals' = [T |-> r.T, n |-> r.n]
         /\ ret' = [trimmed_latents |-> r.dicts[r.out]]
  /\ pc' = "done"
  /\ UNCHANGED <<op, args>>

Next == ExecuteFLF \/ ExecuteCut

Spec == Init /\ [][Next]_vars

----------------------------------------------------------------------------
(* Vocabulary of the properties *)

FLFDone == pc = "done" /\ op = "flf"

CutDone == pc = "done" /\ op = "cut"

\* execute ran to its return statement
FLFReturned == FLFDone /\ locals.raised = "none"

\* what the caller gave, as values
AnchorRow(b) ==
  [t \in 1..args.anchor_samples.T |-> InputCode(AnchorTag, b, t)]

PrevRow(b) == [t \in 1..args.prev_samples.T |-> InputCode(PrevTag, b, t)]

EndRow(b) == [t \in 1..args.end_samples.T |-> InputCode(EndTag, b, t)]

\* end_samples is given and agrees with the anchor on C, H and W
EndCompatible ==
  /\ args.end_samples.present
  /\ args.end_samples.C = args.anchor_samples.C
  /\ args.end_samples.H = args.anchor_samples.H
  /\ args.end_samples.W = args.anchor_samples.W

\* the block and the mask execute stored in a conditioning record
BlockOf(c) == Contents(heap, c["concat_latent_image"])

MaskOf(c) == Contents(heap, c["concat_mask"])

\* the assembled block, per batch element, and the mask row
Block == BlockOf(ret.positive)

MaskRow == MaskOf(ret.positive)[1]

\* floor((length - 1) / 4) + 1, told by its defining inequalities
IsSlotCount(k, length) == 4 * (k - 1) + 1 <= length /\ length <= 4 * k

\* the last k elements of a sequence
LastSlots(s, k) == [i \in 1..k |-> s[Len(s) - k + i]]

----------------------------------------------------------------------------
(* C1: the assembled block and the mask stored by                          *)
(* WanImageToVideoSVIProFLF.execute both have exactly                      *)
(* total_latents = floor((length-1)/4)+1 temporal slots, whatever the      *)
(* anchor, prev_samples, motion_latent_count and end_samples are.          *)
C1_TemporalLength ==
  /\ TotalLatents(81) = 21 /\ TotalLatents(41) = 11 /\ TotalLatents(1) = 1
  /\ TotalLatents(4) = 1 /\ TotalLatents(5) = 2
  /\ FLFReturned =>
       \A c \in {ret.positive, ret.negative} :
         /\ DOMAIN BlockOf(c) = 1..args.anchor_samples.B
         /\ \A b \in DOMAIN BlockOf(c) :
              IsSlotCount(Len(BlockOf(c)[b]), args.length)
         /\ DOMAIN MaskOf(c) = {1}
         /\ IsSlotCount(Len(MaskOf(c)[1]), args.length)

\* a call that truncates a base block longer than total_latents and then
\* locks end slots
C1_Witness ==
  /\ FLFReturned
  /\ locals.T_base > locals.total_latents
  /\ locals.total_latents > 1
  /\ locals.end_t_fix > 0

\* the locals of execute at its return on the inputs a
Run(a) == RunFLF(a, FLFHeap(a), FLFDicts(a))

(* C2: in the mask, slot 0 is 0.0; with a shape-compatible end_samples the *)
(* last min(T_end, total_latents) slots are 0.0; every other slot is 1.0.  *)
C2_MaskSlots ==
  /\ (FLFDone /\ args = Scenario(21, 1, 3, 2)) =>
       /\ FLFReturned
       /\ MaskRow = <<0, 1, 1, 1, 1, 1>>
  /\ FLFReturned =>
       \A c \in {ret.positive, ret.negative} :
         \A t \in 1..Len(MaskOf(c)[1]) :
           MaskOf(c)[1][t] =
             IF \/ t = 1
                \/ /\ EndCompatible
                   /\ t > Len(MaskOf(c)[1])
                          - Min(args.end_samples.T, Len(MaskOf(c)[1]))
               THEN 0 ELSE 1

\* a compatible end block locks some slots and leaves a free one
C2_Witness ==
  /\ FLFReturned
  /\ EndCompatible
  /\ locals.end_t_fix > 0
  /\ \E t \in 1..Len(MaskRow) : MaskRow[t] = 1

(* C3: for any T >= 1 and slots_to_cut >= 1 the output of                  *)
(* WanCutLastSlot.execute has at least 1 temporal slot and fewer than T.   *)
C3_NeverEmpty ==
  (CutDone /\ args.T >= 1) =>
    /\ TLen(ret.trimmed_latents["samples"]) >= 1
    /\ TLen(ret.trimmed_latents["samples"]) < args.T

WithoutEnd == [args EXCEPT !.end_samples = None]

(* C6: an end_samples whose C, H or W differs from the anchor's raises no  *)
(* error and changes nothing: end_t_fix is 0, the mask locks only slot 0   *)
(* and the block is the one produced without end_samples.                  *)
C6_MismatchIsNoOp ==
  (FLFDone /\ args.end_samples.present /\ ~EndCompatible) =>
    \E f \in {Run(WithoutEnd)} :
      /\ locals.raised = f.raised
      /\ locals.raised # "setitem"
      /\ locals.end_t_fix = 0
      /\ FLFReturned =>
           /\ Block = Contents(f.heap, f.image_cond_latent)
           /\ MaskRow = Contents(f.heap, f.mask)[1]
           /\ \A t \in 1..Len(MaskRow) : MaskRow[t] = 0 <=> t = 1

\* a mismatching, non-empty end block of another batch size on a padded block
C6_Witness ==
  /\ FLFReturned
  /\ args.end_samples.present
  /\ ~EndCompatible
  /\ args.end_samples.T > 0
  /\ args.end_samples.B > args.anchor_samples.B
  /\ locals.padding_size > 0

(* C7: the base block is the anchor alone when prev_samples is absent or   *)
(* motion_latent_count is 0; otherwise the anchor's slots followed by the  *)
(* last min(motion_latent_count, T_prev) slots of prev_samples in order,   *)
(* T_base = T_anchor + motion_count; a count above T_prev is clamped and   *)
(* raises nothing.                                                         *)
C7_BaseBlock ==
  /\ (FLFDone /\ args = Scenario(1, 1, 2, 5)) =>
       /\ FLFReturned
       /\ locals.base_value[1] = <<InputCode(AnchorTag, 1, 1),
                                   InputCode(PrevTag, 1, 1),
                                   InputCode(PrevTag, 1, 2)>>
  /\ FLFDone =>
       \E m \in 0..args.prev_samples.T :
         /\ (~args.prev_samples.present \/ args.motion_latent_count = 0) => m = 0
         /\ (args.prev_samples.present /\ args.motion_latent_count # 0) =>
              /\ m <= args.motion_latent_count
              /\ m = args.motion_latent_count \/ m = args.prev_samples.T
         /\ (m = 0 \/ args.prev_samples.B = args.anchor_samples.B) =>
              /\ locals.raised # "cat"
              /\ locals.T_base = args.anchor_samples.T + m
              /\ DOMAIN locals.base_value = 1..args.anchor_samples.B
              /\ \A b \in DOMAIN locals.base_value :
                   locals.base_value[b] = AnchorRow(b) \o LastSlots(PrevRow(b), m)

\* motion_latent_count exceeds the slots prev_samples has
C7_Witness ==
  /\ FLFReturned
  /\ args.prev_samples.present
  /\ args.prev_samples.T > 0
  /\ args.motion_latent_count > args.prev_samples.T
  /\ locals.motion_count = args.prev_samples.T

(* C8: before end-locking, a base block shorter than total_latents is      *)
(* followed by slots holding the Wan21 process_out of zero (not raw zero), *)
(* a longer one is cut to its first total_latents slots, and one of that   *)
(* length is unchanged.                                                    *)
C8_PadOrTruncate ==
  (FLFDone /\ locals.raised # "cat") =>
    \A b \in DOMAIN locals.base_value :
      \E k \in 1..args.length :
        /\ IsSlotCount(k, args.length)
        /\ Len(locals.before_end[b]) = k
        /\ \A t \in 1..k :
             locals.before_end[b][t] =
               IF t <= Len(locals.base_value[b])
                 THEN locals.base_value[b][t]
                 ELSE process_out_slab(RawZero)
        /\ process_out_slab(RawZero) # RawZero

\* padding is appended after an anchor and a motion tail
C8_Witness ==
  /\ FLFReturned
  /\ locals.motion_count > 0
  /\ locals.T_base < locals.total_latents

(* C9: no call changes the caller's data: after                            *)
(* WanImageToVideoSVIProFLF.execute the tensors of anchor_samples,         *)
(* prev_samples and end_samples hold what they held before, and after      *)
(* WanCutLastSlot.execute the input container still maps samples to the    *)
(* untrimmed tensor.                                                       *)
C9_InputsUntouched ==
  /\ FLFDone =>
       /\ dicts = FLFDicts(args)
       /\ \A name \in DOMAIN FLFHeap(args) : heap[name] = FLFHeap(args)[name]
  /\ CutDone =>
       /\ dicts["latents"] = CutDicts(args)["latents"]
       /\ heap["x_in"] = CutHeap(args)["x_in"]

\* the end-lock overwrite lands in the clone of the anchor
C9_Witness ==
  /\ FLFReturned
  /\ locals.image_cond_latent.store = "anchor_latent"
  /\ locals.end_t_fix > 0

(* C10: temporal slot 0 of the assembled block, which the mask marks as    *)
(* locked, equals temporal slot 0 of anchor_samples for every prev_samples,*)
(* motion_latent_count and end_samples.                                    *)
C10_AnchorSlotKept ==
  FLFReturned =>
    /\ MaskRow[1] = 0
    /\ \A b \in DOMAIN Block : Block[b][1] = AnchorRow(b)[1]

====
